---- MODULE Spec2Model ----
(***************************************************************************)
(* Seat assignment of the pretix seatmap plugin.                           *)
(*                                                                         *)
(* The two write endpoints, CheckoutSeatSelectionView.post and             *)
(* SeatSelectionView.post (views.py), run the same algorithm inside one    *)
(* database transaction (@transaction.atomic).  Under the default          *)
(* READ COMMITTED isolation every query of a request reads the committed   *)
(* rows of that moment, the request's own writes stay invisible to other   *)
(* requests until the transaction commits, and a write waits for a row     *)
(* another open transaction has written.  The model keeps the committed    *)
(* rows in cp/order/voucher and each request's uncommitted writes in the   *)
(* request record.                                                         *)
(*                                                                         *)
(* The status query, SeatmapDataAPIView.get (api.py), is a read of the     *)
(* same rows and of the catalog (products, category mappings, the parsed   *)
(* layout); its response is kept in view.                                  *)
(***************************************************************************)
EXTENDS Integers, Sequences, FiniteSets, TLC

\* ---------------------------------------------------------------- bounds
MaxTime == 2        \* the clock runs 0..MaxTime
MaxBatch == 2       \* pairs in one submitted batch
MaxRace == 1        \* pairs in a batch of two racing requests
MaxReq == 2         \* requests started in one behaviour
MaxEnv == 1         \* order / voucher / cart events outside the plugin

\* ------------------------------------------------------------ the store
Req == {1, 2}                      \* request slots (concurrent workers)
Carts == {"A", "B"}
Pk == {1, 2, 3, 4}                 \* primary keys of cart positions
NoSeat == "none"                   \* seat = NULL
Seats == {"S1", "S2"}              \* seat_guid of the event's Seat rows
Guids == Seats \cup {"SX"}         \* guids a client can submit; SX has no row
NoTime == -1                       \* valid_until IS NULL

CartOf(pk) == IF pk \in {1, 2} THEN "A" ELSE "B"
Admission(pk) == pk # 4            \* item.admission
Expires(pk) == IF CartOf(pk) = "A" THEN 1 ELSE 2
SeatName(s) == IF s = "S1" THEN "Row 1 Seat 1" ELSE "Row 1 Seat 2"

\* str(p.pk), the keys of position_map, and int(pos_id) on such a key
StrPk(pk) == CASE pk = 1 -> "1" [] pk = 2 -> "2" [] pk = 3 -> "3" [] pk = 4 -> "4"
Keys == {"1", "2", "3", "4"}       \* position ids a client can submit
IntKey(k) == CASE k = "1" -> 1 [] k = "2" -> 2 [] k = "3" -> 3 [] k = "4" -> 4

VARIABLES now, cp, order, voucher, blocked, catalog, view, req, nreq, nenv
vars == <<now, cp, order, voucher, blocked, catalog, view, req, nreq, nenv>>

\* ------------------------------------------------------------- requests
Pairs == [pos : Keys, seat : Guids]
\* a JSON object {position_id: seat_guid}: its keys are unique and its
\* order is kept.  Positions 1 and 2 are interchangeable and a key outside
\* the cart is refused whatever its place, so the batches are listed in
\* ascending key order only.
Ascending(b) == \A i, j \in 1..Len(b) : i < j => IntKey(b[i].pos) < IntKey(b[j].pos)
BatchesUpTo(m) == {b \in UNION {[1..n -> Pairs] : n \in 0..m} : Ascending(b)}
Batches == BatchesUpTo(MaxBatch)
RaceBatches == BatchesUpTo(MaxRace)

NotSaved == "-"
NoSaves == [p \in Pk |-> NotSaved]
NoResp == [status |-> "", code |-> 0, kind |-> "", arg |-> ""]
\* one request: its input (cart, batch), the locals of post (pmap =
\* position_map, i = the loop index), the rows written by its open
\* transaction (cleared, saved) and its response; overlap and resub record
\* what the store was like when the request started; body is the shape of
\* the request body, "object" for {seat_assignments: {...}}; form is the
\* cleaned data of a backend form
NoForm == <<>>
Idle == [pc |-> "idle", cart |-> "A", batch |-> <<>>, pmap |-> {}, i |-> 0,
         cleared |-> {}, saved |-> NoSaves, resp |-> NoResp, overlap |-> FALSE,
         resub |-> FALSE, body |-> "object", form |-> NoForm]

\* JsonResponse({'status': 'error', 'message': ...}, status=code)
ErrorResp(code, kind, arg) == [status |-> "error", code |-> code, kind |-> kind, arg |-> arg]
\* JsonResponse({'status': 'success', ...})
SuccessResp == [status |-> "success", code |-> 200, kind |-> "Success", arg |-> ""]
MalformedRequest == ErrorResp(400, "MalformedRequest", "")
PositionNotInCart == ErrorResp(400, "PositionNotInCart", "")
DuplicateSeatAssignment == ErrorResp(400, "DuplicateSeatAssignment", "")
\* the unknown seat answered like the other rejections, with status 400
SeatNotFound_Status400 == ErrorResp(400, "SeatNotFound", "")
SeatNotFound == ErrorResp(404, "SeatNotFound", "")
SeatUnavailable(s) == ErrorResp(400, "SeatUnavailable", SeatName(s))
\* str(e): the text of the error that was raised
ErrText(k) ==
    CASE k = "aborted" -> "deadlock detected"
      [] k = "open" -> "receiver raised"
      [] k = "not_object" -> "'list' object has no attribute 'get'"
      [] k = "bad_assignments" -> "'list' object has no attribute 'keys'"
UnexpectedFailure(k) == ErrorResp(500, "UnexpectedFailure", ErrText(k))

\* ------------------------------------------------------------ the holds
\* the order query without its filter on order__status
HasOrder_AnyStatus(s) == order[s] # "none"
\* OrderPosition of this seat in a pending ('n') or paid ('p') order
HasOrder(s) == order[s] \in {"n", "p"}
\* voucher of this seat, valid_until NULL or >= now(), redeemed < max_usages
HasVoucher(s) ==
    /\ voucher[s].present
    /\ (voucher[s].valid_until = NoTime \/ voucher[s].valid_until >= now)
    /\ voucher[s].redeemed < voucher[s].max_usages
\* the cart query without expires__gte=now()
ActiveCart_NoExpiry(p) == cp[p].exists /\ cp[p].seat # NoSeat
\* CartPosition.objects.filter(seat=seat, expires__gte=now())
ActiveCart(p) == cp[p].exists /\ cp[p].seat # NoSeat /\ Expires(p) >= now
CartHolders(s) == {p \in Pk : ActiveCart(p) /\ cp[p].seat = s}

\* is_seat_taken without .exclude(pk=exclude_cart_position_id)
is_seat_taken_NoExclude(s, exclude_cart_position_id) ==
    \/ HasOrder(s)
    \/ CartHolders(s) # {}
    \/ HasVoucher(s)

\* is_seat_taken without its query on OrderPosition
is_seat_taken_NoOrderQuery(s, exclude_cart_position_id) ==
    \/ CartHolders(s) \ {exclude_cart_position_id} # {}
    \/ HasVoucher(s)

is_seat_taken(s, exclude_cart_position_id) ==
    \/ HasOrder(s)
    \/ CartHolders(s) \ {exclude_cart_position_id} # {}
    \/ HasVoucher(s)

\* ----------------------------------------------------- request handling
\* positions = CartPosition.objects.filter(cart_id, event, item__admission)
LoadPositions(cart) == {p \in Pk : cp[p].exists /\ CartOf(p) = cart /\ Admission(p)}
position_map_keys(pm) == {StrPk(p) : p \in pm}
BatchKeys(b) == {b[i].pos : i \in 1..Len(b)}
BatchSeats(b) == {b[i].seat : i \in 1..Len(b)}

\* validation without step 1 (position ids are not looked up in the cart)
Validate_NoPositionCheck(b, pm) ==
    IF Len(b) # Cardinality(BatchSeats(b)) THEN DuplicateSeatAssignment ELSE NoResp
\* validation without step 2 (guids are not compared)
Validate_NoDuplicateCheck(b, pm) ==
    IF \E i \in 1..Len(b) : b[i].pos \notin position_map_keys(pm)
    THEN PositionNotInCart
    ELSE NoResp

\* validation steps 1 and 2, run on the loaded positions; NoResp = passed
\* validation with step 2 (duplicates) before step 1 (position ids)
Validate_DuplicateFirst(b, pm) ==
    IF Len(b) # Cardinality(BatchSeats(b))
    THEN DuplicateSeatAssignment
    ELSE IF \E i \in 1..Len(b) : b[i].pos \notin position_map_keys(pm)
    THEN PositionNotInCart
    ELSE NoResp
Validate(b, pm) ==
    IF \E i \in 1..Len(b) : b[i].pos \notin position_map_keys(pm)
    THEN PositionNotInCart
    ELSE IF Len(b) # Cardinality(BatchSeats(b))
    THEN DuplicateSeatAssignment
    ELSE NoResp

\* the committed seat links of the cart are those a commit of batch b
\* leaves: each named position has its seat, the other positions none
Committed(b, pm) ==
    /\ Len(b) > 0
    /\ \A i \in 1..Len(b) : IntKey(b[i].pos) \in pm /\ cp[IntKey(b[i].pos)].seat = b[i].seat
    /\ \A p \in pm : StrPk(p) \notin BatchKeys(b) => cp[p].seat = NoSeat

InFlight(r) == req[r].pc \in {"check", "clear", "save"}
\* rows written by an open transaction stay locked until it ends
RowsOf(r) == req[r].cleared \cup {p \in Pk : req[r].saved[p] # NotSaved}
Locked(r, rows) == \E o \in Req \ {r} : InFlight(o) /\ RowsOf(o) \cap rows # {}

\* the rows as they would be left if update(seat=None) ran after the saves
Written_ClearLast(q, p) ==
    IF p \in q.cleared /\ cp[p].exists THEN [exists |-> TRUE, seat |-> NoSeat]
    ELSE IF q.saved[p] # NotSaved THEN [exists |-> TRUE, seat |-> q.saved[p]]
    ELSE cp[p]

\* the rows as the transaction of request record q leaves them: update()
\* changes the rows it matched, save() updates the row, or inserts it when
\* the update matched none
Written(q, p) ==
    IF q.saved[p] # NotSaved THEN [exists |-> TRUE, seat |-> q.saved[p]]
    ELSE IF p \in q.cleared /\ cp[p].exists THEN [exists |-> TRUE, seat |-> NoSeat]
    ELSE cp[p]

\* post returns response rs with its locals as in q: leaving the function
\* normally makes transaction.atomic commit whatever was written, unless
\* the database has aborted the transaction
Return(r, q, rs, aborted) ==
    /\ req' = [req EXCEPT ![r] = [q EXCEPT !.pc = "done", !.resp = rs]]
    /\ cp' = IF aborted THEN cp ELSE [p \in Pk |-> Written(q, p)]

\* json.loads, the load of the cart's positions and validation steps 1, 2
Begin(r, cart, b) ==
    /\ req[r].pc = "idle"
    /\ nreq < MaxReq
    /\ nreq' = nreq + 1
    /\ LET pm == LoadPositions(cart)
           v == Validate(b, pm)
           q == [Idle EXCEPT !.cart = cart, !.batch = b, !.pmap = pm,
                             !.overlap = \E o \in Req \ {r} : InFlight(o),
                             !.resub = Committed(b, pm)]
       IN IF v # NoResp THEN Return(r, q, v, FALSE)
          ELSE /\ req' = [req EXCEPT ![r] =
                            IF Len(b) = 0 THEN [q EXCEPT !.pc = "clear"]
                            ELSE [q EXCEPT !.pc = "check", !.i = 1]]
               /\ cp' = cp
    /\ UNCHANGED <<now, order, voucher, nenv, blocked, catalog, view>>

\* validation step 3 saving each pair as soon as it has passed
Check_SaveWhileValidating(r) ==
    /\ req[r].pc = "check"
    /\ LET q == req[r]
           pr == q.batch[q.i]
           w == [q EXCEPT !.saved[IntKey(pr.pos)] = pr.seat]
       IN IF pr.seat \notin Seats THEN Return(r, q, SeatNotFound, FALSE)
          ELSE IF is_seat_taken(pr.seat, IntKey(pr.pos))
          THEN Return(r, q, SeatUnavailable(pr.seat), FALSE)
          ELSE /\ req' = [req EXCEPT ![r] =
                            IF q.i = Len(q.batch) THEN [w EXCEPT !.pc = "clear", !.i = 0]
                            ELSE [w EXCEPT !.i = @ + 1]]
               /\ cp' = cp
    /\ UNCHANGED <<now, order, voucher, nreq, nenv, blocked, catalog, view>>

\* validation step 3 for pair i: Seat.objects.get and is_seat_taken
Check(r) ==
    /\ req[r].pc = "check"
    /\ LET q == req[r]
           pr == q.batch[q.i]
       IN IF pr.seat \notin Seats THEN Return(r, q, SeatNotFound, FALSE)
          ELSE IF is_seat_taken(pr.seat, IntKey(pr.pos))
          THEN Return(r, q, SeatUnavailable(pr.seat), FALSE)
          ELSE /\ req' = [req EXCEPT ![r] =
                            IF q.i = Len(q.batch) THEN [q EXCEPT !.pc = "clear", !.i = 0]
                            ELSE [q EXCEPT !.i = @ + 1]]
               /\ cp' = cp
    /\ UNCHANGED <<now, order, voucher, nreq, nenv, blocked, catalog, view>>

\* CartPosition.objects.filter(pk__in=position_map.keys()).update(seat=None)
Clear(r) ==
    /\ req[r].pc = "clear"
    /\ LET rows == {p \in req[r].pmap : cp[p].exists}
           q == [req[r] EXCEPT !.cleared = rows]
       IN /\ ~Locked(r, rows)
          /\ IF Len(q.batch) = 0 THEN Return(r, q, SuccessResp, FALSE)
             ELSE /\ req' = [req EXCEPT ![r] = [q EXCEPT !.pc = "save", !.i = 1]]
                  /\ cp' = cp
    /\ UNCHANGED <<now, order, voucher, nreq, nenv, blocked, catalog, view>>

\* pos = position_map[pos_id]; pos.seat = seat; pos.save()
Save(r) ==
    /\ req[r].pc = "save"
    /\ LET pr == req[r].batch[req[r].i]
           pk == IntKey(pr.pos)
           q == [req[r] EXCEPT !.saved[pk] = pr.seat]
       IN /\ ~Locked(r, {pk})
          /\ IF q.i = Len(q.batch) THEN Return(r, q, SuccessResp, FALSE)
             ELSE /\ req' = [req EXCEPT ![r] = [q EXCEPT !.i = @ + 1]]
                  /\ cp' = cp
    /\ UNCHANGED <<now, order, voucher, nreq, nenv, blocked, catalog, view>>

\* the next write statement raises: `except Exception`, inside the atomic
\* function, answers with status 500 and the function returns normally.
\* k = "aborted": a database error that aborts the transaction (PostgreSQL);
\* k = "open": any other error (a signal receiver of save(), a database
\* error on a backend that keeps the transaction usable)
Fault(r, k) ==
    /\ req[r].pc \in {"clear", "save"}
    /\ Return(r, req[r], UnexpectedFailure(k), k = "aborted")
    /\ UNCHANGED <<now, order, voucher, nreq, nenv, blocked, catalog, view>>

\* the response is handed to the client; the worker takes the next request
Respond(r) ==
    /\ req[r].pc = "done"
    /\ req' = [req EXCEPT ![r] = Idle]
    /\ UNCHANGED <<now, cp, order, voucher, nreq, nenv, blocked, catalog, view>>

\* the bodies that are not {seat_assignments: {...}}: text that is not
\* JSON, JSON that is not an object, and an object whose seat_assignments
\* is not an object
Bodies == {"invalid_json", "not_object", "bad_assignments"}
\* post on such a body: json.loads raises JSONDecodeError, or data.get
\* raises, or, after the positions are loaded, seat_assignments.keys()
\* raises; the last two are caught by `except Exception`
BeginMalformed(r, cart, body) ==
    /\ req[r].pc = "idle"
    /\ nreq < MaxReq
    /\ nreq' = nreq + 1
    /\ LET q == [Idle EXCEPT !.cart = cart, !.body = body,
                             !.pmap = IF body = "bad_assignments"
                                      THEN LoadPositions(cart) ELSE {},
                             !.overlap = \E o \in Req \ {r} : InFlight(o)]
       IN Return(r, q, IF body = "invalid_json" THEN MalformedRequest
                       ELSE UnexpectedFailure(body), FALSE)
    /\ UNCHANGED <<now, order, voucher, nenv, blocked, catalog, view>>

\* ------------------------------------------------------- the environment
NoVoucher == [present |-> FALSE, valid_until |-> NoTime, redeemed |-> 0, max_usages |-> 0]
Free(s) == ~HasOrder(s) /\ ~HasVoucher(s) /\ CartHolders(s) = {}

\* the clock passes
Tick ==
    /\ now < MaxTime
    /\ now' = now + 1
    /\ UNCHANGED <<cp, order, voucher, req, nreq, nenv, blocked, catalog, view>>

\* the cart position is turned into a position of a pending order
PlaceOrder(p) ==
    /\ nenv < MaxEnv
    /\ ActiveCart(p)
    /\ ~Locked(0, {p})
    /\ ~HasOrder(cp[p].seat) /\ ~HasVoucher(cp[p].seat) /\ CartHolders(cp[p].seat) = {p}
    /\ order' = [order EXCEPT ![cp[p].seat] = "n"]
    /\ cp' = [cp EXCEPT ![p] = [exists |-> FALSE, seat |-> NoSeat]]
    /\ nenv' = nenv + 1
    /\ UNCHANGED <<now, voucher, req, nreq, blocked, catalog, view>>

\* an order of another customer references a free seat: pending ('n'),
\* paid ('p'), expired ('e') or canceled ('c')
ExternalOrder(s, st) ==
    /\ nenv < MaxEnv
    /\ Free(s)
    /\ order' = [order EXCEPT ![s] = st]
    /\ nenv' = nenv + 1
    /\ UNCHANGED <<now, cp, voucher, req, nreq, blocked, catalog, view>>

\* a voucher is bound to a free seat; rd of its one usage are redeemed
CreateVoucher(s, vu, rd) ==
    /\ nenv < MaxEnv
    /\ Free(s)
    /\ ~voucher[s].present
    /\ voucher' = [voucher EXCEPT ![s] =
                     [present |-> TRUE, valid_until |-> vu, redeemed |-> rd, max_usages |-> 1]]
    /\ nenv' = nenv + 1
    /\ UNCHANGED <<now, cp, order, req, nreq, blocked, catalog, view>>

\* an administrator sets the blocked flag of a seat
BlockSeat(s) ==
    /\ nenv < MaxEnv
    /\ ~blocked[s]
    /\ blocked' = [blocked EXCEPT ![s] = TRUE]
    /\ nenv' = nenv + 1
    /\ UNCHANGED <<now, cp, order, voucher, catalog, view, req, nreq>>

\* ------------------------------------------------------ the status query
Products == {"A", "B", "C"}
NoProduct == "none"                \* no product resolves / no mapping row
Cats == {"VIP", "Std"}             \* layout categories
NoGuid == "none"                   \* a seat of the layout without seat_guid
NoCat == "none"
Subevents == {"S", "T"}
NoSub == "none"                    \* the request has no subevent

\* the plan's layout payload.  kind: "empty" (the empty text),
\* "unparsable" (not JSON), "null" and "list" (JSON, not an object),
\* "object"; an object has the keys in keys, under "zones" the rows of its
\* zones, each {category, seats}, under "seats" a flat list of seats, each
\* {seat_guid, category}
Payload(kind) == [kind |-> kind, keys |-> {}, rows |-> <<>>, seats |-> <<>>]
ZoneLayout(rows) == [kind |-> "object", keys |-> {"zones"}, rows |-> rows, seats |-> <<>>]
LayoutSeat(g, k) == [seat_guid |-> g, category |-> k]
LayoutRow(k, seats) == [category |-> k, seats |-> seats]
\* one row without category: S1 with its own category k, S2 with none
RowOf(k) == <<LayoutRow(NoCat, <<LayoutSeat("S1", k), LayoutSeat("S2", NoCat)>>)>>

\* direct  seat.product
\* layout  event.seating_plan.layout
\* nulls_first  the database sorts NULL first in descending order
\* general_last  a query without ORDER BY returns the general rows last
\* mapping  the SeatCategoryMapping rows of the event
\* seat_rows  the guids of the Seat rows of the event
\* available  Item.is_available()
\* override  subevent.item_overrides[product].is_available(), "none" = no entry
\* seating_choice  event.settings.seating_choice
\* seating_plan  event.seating_plan is set
\* one SeatCategoryMapping row; pk tells the rows of one key apart
MappingRow(pk, c, u, p) == [pk |-> pk, layout_category |-> c, subevent |-> u, product |-> p]
\* the table with one row for each (category, subevent) that f maps to a
\* product
MappingTable(f) ==
    {MappingRow(0, x[1], x[2], f[x[1]][x[2]]) :
        x \in {y \in Cats \X {NoSub, "S"} : f[y[1]][y[2]] # NoProduct}}
PlainCatalog ==
    [direct |-> [s \in Seats |-> "B"],
     layout |-> ZoneLayout(RowOf(NoCat)),
     mapping |-> {},
     seat_rows |-> Seats,
     available |-> [p \in Products |-> TRUE],
     override |-> [u \in Subevents |-> [p \in Products |-> "none"]],
     seating_choice |-> TRUE,
     seating_plan |-> TRUE,
     nulls_first |-> TRUE,
     general_last |-> FALSE]
\* the committed rows a query reads
Store == <<now, cp, order, voucher, blocked, catalog>>
\* the answer of the last query: its caller, its seat records, and the
\* store it was computed from (seen)
NoView == [pc |-> "none", cart |-> "A", subevent |-> NoSub, seats |-> <<>>, seen |-> <<>>]

\* cart = get_cart(request): the positions of the caller's cart, expired
\* or not; cart_seats = {p.seat.seat_guid for p in cart if p.seat}
cart_seats(c) == {cp[p].seat : p \in {q \in Pk : cp[q].exists /\ CartOf(q) = c /\ cp[q].seat # NoSeat}}
\* Seat.annotated: has_order and has_voucher are HasOrder and HasVoucher,
\* has_cart is an unexpired cart position of any cart
has_cart(s) == CartHolders(s) # {}

\* the SeatCategoryMapping rows with subevent u
MappingRows(u) == {m \in catalog.mapping : m.subevent = u}
RECURSIVE SetToSeq(_)
SetToSeq(S) == IF S = {} THEN <<>> ELSE LET x == CHOOSE y \in S : TRUE IN <<x>> \o SetToSeq(S \ {x})
\* q_mappings as the database returns it.  With a subevent the rows are
\* ordered by subevent_id descending (.order_by('subevent_id').reverse());
\* where NULL sorts is the backend's choice: first on PostgreSQL, last on
\* SQLite and MySQL
q_mappings(sub, nulls_first) ==
    IF sub = NoSub THEN SetToSeq(MappingRows(NoSub))
    ELSE IF nulls_first THEN SetToSeq(MappingRows(NoSub)) \o SetToSeq(MappingRows(sub))
    ELSE SetToSeq(MappingRows(sub)) \o SetToSeq(MappingRows(NoSub))
\* for mapping in q_mappings: category_mappings[mapping.layout_category] = ...
RECURSIVE category_mappings(_)
category_mappings(rows) ==
    IF rows = <<>> THEN [c \in Cats |-> NoProduct]
    ELSE [category_mappings(SubSeq(rows, 1, Len(rows) - 1))
            EXCEPT ![rows[Len(rows)].layout_category] = rows[Len(rows)].product]

\* json.loads(event.seating_plan.layout or '{}') raises on text that is
\* not JSON, `'zones' in layout_data` raises on null
LayoutRaises(l) == l.kind \in {"unparsable", "null"}
\* the entries one list of seats adds to the map: the seat's own category,
\* else the category of its row (none in a flat layout); a seat without
\* guid or without category adds none
RECURSIVE AddSeats(_, _, _)
AddSeats(m, seats, row_category) ==
    IF seats = <<>> THEN m
    ELSE LET k == IF seats[1].category # NoCat THEN seats[1].category ELSE row_category
         IN AddSeats(IF seats[1].seat_guid # NoGuid /\ k # NoCat
                     THEN [m EXCEPT ![seats[1].seat_guid] = k] ELSE m,
                     Tail(seats), row_category)
RECURSIVE AddRows(_, _)
AddRows(m, rows) ==
    IF rows = <<>> THEN m
    ELSE AddRows(AddSeats(m, rows[1].seats, rows[1].category), Tail(rows))
\* seat_guid_to_layout_category after find_seat_categories(seating_plan_data)
find_seat_categories(l) ==
    LET none == [s \in Seats |-> NoCat]
    IN IF l.kind # "object" THEN none
       ELSE IF "zones" \in l.keys THEN AddRows(none, l.rows)
       ELSE IF "seats" \in l.keys THEN AddSeats(none, l.seats, NoCat)
       ELSE none
\* seat_guid_to_layout_category.get(seat.seat_guid)
layout_category_name(s) == find_seat_categories(catalog.layout)[s]

\* product_id with the category mapping looked up before seat.product
product_id_MappingFirst(s, cm) ==
    IF layout_category_name(s) # NoCat /\ cm[layout_category_name(s)] # NoProduct
    THEN cm[layout_category_name(s)]
    ELSE catalog.direct[s]
\* seat.product.id, else the product mapped to the seat's layout category
product_id(s, cm) ==
    IF catalog.direct[s] # NoProduct THEN catalog.direct[s]
    ELSE IF layout_category_name(s) # NoCat /\ cm[layout_category_name(s)] # NoProduct
    THEN cm[layout_category_name(s)]
    ELSE NoProduct
\* product and product.is_available(), and no override of the request's
\* subevent that is not available
is_available(pid, sub) ==
    /\ pid # NoProduct
    /\ catalog.available[pid]
    /\ ~(sub # NoSub /\ catalog.override[sub][pid] = "off")

\* the status decision with the hold test before the own-cart test
status_HoldsFirst(s, c, sub, cm) ==
    IF ~is_available(product_id(s, cm), sub) THEN "unavailable"
    ELSE IF HasOrder(s) \/ (has_cart(s) /\ s \notin cart_seats(c)) \/ HasVoucher(s)
    THEN "unavailable"
    ELSE IF s \in cart_seats(c) THEN "selected"
    ELSE "available"
\* the status decision without the product availability test
status_NoProductTest(s, c, sub, cm) ==
    IF s \in cart_seats(c) THEN "selected"
    ELSE IF HasOrder(s) \/ (has_cart(s) /\ s \notin cart_seats(c)) \/ HasVoucher(s)
    THEN "unavailable"
    ELSE "available"
\* the status decision without seat.has_voucher
status_IgnoresVoucher(s, c, sub, cm) ==
    IF ~is_available(product_id(s, cm), sub) THEN "unavailable"
    ELSE IF s \in cart_seats(c) THEN "selected"
    ELSE IF HasOrder(s) \/ (has_cart(s) /\ s \notin cart_seats(c))
    THEN "unavailable"
    ELSE "available"
status(s, c, sub, cm) ==
    IF ~is_available(product_id(s, cm), sub) THEN "unavailable"
    ELSE IF s \in cart_seats(c) THEN "selected"
    ELSE IF HasOrder(s) \/ (has_cart(s) /\ s \notin cart_seats(c)) \/ HasVoucher(s)
    THEN "unavailable"
    ELSE "available"

\* the seats of the event in the order of the queryset
SeatOrder == <<"S1", "S2">>
SeatRecord(s, c, sub, cm) ==
    [guid |-> s, category |-> layout_category_name(s), product |-> product_id(s, cm),
     status |-> status(s, c, sub, cm)]
\* the loop leaving out the seats for which no product resolves
RECURSIVE seats_data_SkipsUnsold(_, _, _, _)
seats_data_SkipsUnsold(seats, c, sub, cm) ==
    IF seats = <<>> THEN <<>>
    ELSE (IF product_id(seats[1], cm) = NoProduct THEN <<>>
          ELSE <<SeatRecord(seats[1], c, sub, cm)>>)
         \o seats_data_SkipsUnsold(Tail(seats), c, sub, cm)
\* for seat in seats: ... seats_data.append({...})
RECURSIVE seats_data(_, _, _, _)
seats_data(seats, c, sub, cm) ==
    IF seats = <<>> THEN <<>>
    ELSE <<SeatRecord(seats[1], c, sub, cm)>> \o seats_data(Tail(seats), c, sub, cm)

\* response_data of get, or the error its layout parse raises
response_data(c, sub) ==
    [pc |-> IF catalog.seating_choice /\ catalog.seating_plan /\ LayoutRaises(catalog.layout)
            THEN "error" ELSE "done",
     cart |-> c, subevent |-> sub,
     seats |-> IF catalog.seating_choice /\ catalog.seating_plan
                  /\ ~LayoutRaises(catalog.layout)
               THEN seats_data(SeatOrder, c, sub,
                               category_mappings(q_mappings(sub, catalog.nulls_first)))
               ELSE <<>>,
     seen |-> Store]
\* a query that also releases the seats of the expired cart positions
get_ReleasingExpired(c, sub) ==
    /\ view' = response_data(c, sub)
    /\ cp' = [p \in Pk |-> IF Expires(p) < now THEN [cp[p] EXCEPT !.seat = NoSeat] ELSE cp[p]]
    /\ UNCHANGED <<now, order, voucher, blocked, catalog, req, nreq, nenv>>
\* SeatmapDataAPIView.get for the caller with cart c under subevent sub
get(c, sub) ==
    /\ view' = response_data(c, sub)
    /\ UNCHANGED <<now, cp, order, voucher, blocked, catalog, req, nreq, nenv>>

\* ------------------------------------------------------- the checkout page
\* layout_data of get_context_data: the parsed object, and {} when the
\* text does not parse or is not an object; the seat loop runs if it is
\* not empty
PageLayoutUsable(l) == l.kind = "object" /\ l.keys # {}
\* guid_to_category_name: seat_plan.get('category') of the seats of the
\* rows of the zones
RECURSIVE PageAddSeats(_, _)
PageAddSeats(m, seats) ==
    IF seats = <<>> THEN m
    ELSE PageAddSeats(IF seats[1].seat_guid \in Seats
                      THEN [m EXCEPT ![seats[1].seat_guid] = seats[1].category] ELSE m,
                      Tail(seats))
RECURSIVE PageAddRows(_, _)
PageAddRows(m, rows) ==
    IF rows = <<>> THEN m ELSE PageAddRows(PageAddSeats(m, rows[1].seats), Tail(rows))
guid_to_category_name(l) == PageAddRows([s \in Seats |-> NoCat], l.rows)
\* product_mappings: every mapping row of the event, of any subevent, in
\* the order the database returns them; the last row of a category stays
product_mappings ==
    category_mappings(IF catalog.general_last
                      THEN SetToSeq(MappingRows("S")) \o SetToSeq(MappingRows(NoSub))
                      ELSE SetToSeq(MappingRows(NoSub)) \o SetToSeq(MappingRows("S")))
PageRecord(s, c) ==
    LET category_name == guid_to_category_name(catalog.layout)[s]
        product == IF category_name = NoCat THEN NoProduct ELSE product_mappings[category_name]
        is_unavailable ==
            \/ HasOrder(s) \/ (has_cart(s) /\ s \notin cart_seats(c)) \/ HasVoucher(s)
            \/ blocked[s] \/ product = NoProduct
    IN [guid |-> s, category |-> category_name, product |-> product,
        status |-> IF is_unavailable THEN "unavailable" ELSE "available"]
\* CheckoutSeatSelectionView.get_context_data for the caller with cart c
get_context_data(c, sub) ==
    /\ view' = [pc |-> "page", cart |-> c, subevent |-> sub,
                seats |-> IF /\ catalog.seating_choice /\ catalog.seating_plan
                             /\ catalog.layout.kind # "empty"
                             /\ PageLayoutUsable(catalog.layout)
                          THEN [i \in 1..Len(SeatOrder) |-> PageRecord(SeatOrder[i], c)]
                          ELSE <<>>,
                seen |-> Store]
    /\ UNCHANGED <<now, cp, order, voucher, blocked, catalog, req, nreq, nenv>>

\* ------------------------------------------------- the checkout seat step
\* a session that has no cart position
EmptyCart == "E"
\* cart = get_cart(request): the positions of the caller's cart
get_cart(c) == {p \in Pk : cp[p].exists /\ CartOf(p) = c}
\* SeatSelectionStep.is_applicable
is_applicable(c) ==
    /\ catalog.seating_choice
    /\ catalog.seating_plan
    /\ \E p \in get_cart(c) : Admission(p) /\ cp[p].seat = NoSeat
\* is_completed counting every position, admission or not
is_completed_AnyPosition(c) == ~\E p \in get_cart(c) : cp[p].seat = NoSeat
\* SeatSelectionStep.is_completed
is_completed(c) == ~\E p \in get_cart(c) : Admission(p) /\ cp[p].seat = NoSeat
\* SeatSelectionStep.post: the redirect to the next step ("next"), or the
\* error message and the redirect to the seat step ("seats")
SeatSelectionStep_post(c) ==
    /\ view' = [pc |-> IF is_completed(c) THEN "next" ELSE "seats",
                cart |-> c, subevent |-> NoSub, seats |-> <<>>, seen |-> Store]
    /\ UNCHANGED <<now, cp, order, voucher, blocked, catalog, req, nreq, nenv>>

\* the layouts the parsers are run on: every kind of payload, and objects
\* with a zone row, a flat list, both or neither
LayoutSeatLists ==
    {<<LayoutSeat("S1", k1), LayoutSeat("S2", k2), LayoutSeat(NoGuid, "VIP")>> :
        k1 \in {"VIP", NoCat}, k2 \in {"Std", NoCat}}
Layouts ==
    {Payload(k) : k \in {"empty", "unparsable", "null", "list", "object"}}
    \cup {[Payload("object") EXCEPT !.keys = {"name"}]}
    \cup {[kind |-> "object", keys |-> ks,
           rows |-> IF "zones" \in ks THEN <<LayoutRow(rk, sl)>> ELSE <<>>,
           seats |-> IF "seats" \in ks THEN sl ELSE <<>>] :
            ks \in {{"zones"}, {"seats"}, {"zones", "seats"}},
            rk \in {"Std", NoCat}, sl \in LayoutSeatLists}
\* VIP mapped generally to A; Std generally to B or not at all, and for
\* subevent S to C or not at all; S1 bound to B or to no product
LayoutCatalogs ==
    {[direct |-> [s \in Seats |-> IF s = "S1" THEN d ELSE NoProduct],
      layout |-> l,
      mapping |-> MappingTable([c \in Cats |-> [u \in {NoSub, "S"} |->
                     IF c = "VIP" THEN (IF u = NoSub THEN "A" ELSE NoProduct)
                     ELSE IF u = NoSub THEN mg ELSE ms]]),
      seat_rows |-> Seats,
      available |-> [p \in Products |-> TRUE],
      override |-> [u \in Subevents |-> [p \in Products |-> "none"]],
      seating_choice |-> TRUE,
      seating_plan |-> TRUE,
      nulls_first |-> nf,
      general_last |-> gl] :
        d \in {"B", NoProduct}, l \in Layouts, mg \in {"B", NoProduct},
        ms \in {"C", NoProduct}, nf \in BOOLEAN, gl \in BOOLEAN}

\* the stores and catalogs the status query is run on: seat S1 with every
\* combination of references and of product resolution, seat S2 a free
\* seat bound to product B
LiveVoucher == [present |-> TRUE, valid_until |-> NoTime, redeemed |-> 0, max_usages |-> 1]
ExpiredVoucher == [present |-> TRUE, valid_until |-> 0, redeemed |-> 0, max_usages |-> 1]
CatalogsOn ==
    {[direct |-> [s \in Seats |-> IF s = "S1" THEN d ELSE "B"],
      layout |-> ZoneLayout(RowOf(k)),
      mapping |-> MappingTable([c \in Cats |-> [u \in {NoSub, "S"} |->
                     IF c # "VIP" THEN NoProduct ELSE IF u = NoSub THEN mg ELSE ms]]),
      seat_rows |-> Seats,
      available |-> [p \in Products |-> IF p = "A" THEN av ELSE TRUE],
      override |-> [u \in Subevents |-> [p \in Products |->
                      IF u = "S" /\ p = "A" THEN ov ELSE "none"]],
      seating_choice |-> TRUE,
      seating_plan |-> TRUE,
      nulls_first |-> nf,
      general_last |-> FALSE] :
        d \in {"A", "B", NoProduct}, k \in {"VIP", NoCat},
        mg \in {"A", "B", NoProduct}, ms \in {"A", "B", NoProduct},
        av \in BOOLEAN, ov \in {"none", "on", "off"}, nf \in BOOLEAN}
\* the same with seat choice switched off, for the catalogs on PostgreSQL
\* whose products are all available
Catalogs ==
    CatalogsOn \cup
    {[k EXCEPT !.seating_choice = FALSE] :
        k \in {x \in CatalogsOn :
                 x.nulls_first /\ x.available["A"] /\ x.override["S"]["A"] = "none"}}

\* ------------------------------------------------- the mapping form
\* seating_plan.get_categories(), in the order of the layout
CatSeq == <<"VIP", "Std">>
\* cleaned_data of EventMappingForm: a product or none for each category
MappingForms == [Cats -> {"A", "B", NoProduct}]
\* the primary key the database gives the next row
NextPk == 1 + Cardinality(catalog.mapping)
\* EventMapping.form_valid up to its loop:
\* SeatCategoryMapping.objects.filter(event=event).delete()
MappingDelete(r, form) ==
    /\ req[r].pc = "idle"
    /\ nreq < MaxReq
    /\ nreq' = nreq + 1
    /\ catalog' = [catalog EXCEPT !.mapping = {}]
    /\ req' = [req EXCEPT ![r] =
                 IF catalog.seating_plan
                 THEN [Idle EXCEPT !.pc = "create", !.form = form, !.i = 1]
                 ELSE [Idle EXCEPT !.pc = "done", !.form = form, !.resp = SuccessResp]]
    /\ UNCHANGED <<now, cp, order, voucher, blocked, view, nenv>>
\* one round of the loop over the categories: SeatCategoryMapping.objects
\* .create(event, layout_category, product) if the form has a product;
\* after the last round the redirect
MappingCreate(r) ==
    /\ req[r].pc = "create"
    /\ LET c == CatSeq[req[r].i]
           p == req[r].form[c]
       IN /\ catalog' = IF p = NoProduct THEN catalog
                        ELSE [catalog EXCEPT !.mapping = @ \cup {MappingRow(NextPk, c, NoSub, p)}]
          /\ req' = [req EXCEPT ![r] =
                       IF req[r].i = Len(CatSeq)
                       THEN [@ EXCEPT !.pc = "done", !.resp = SuccessResp]
                       ELSE [@ EXCEPT !.i = @ + 1]]
    /\ UNCHANGED <<now, cp, order, voucher, blocked, view, nreq, nenv>>

\* ----------------------------------------------------- the plan form
\* cleaned_data of EventSeatingPlanSetForm: a plan of the organizer ("P")
\* or none, and the checkbox
NoPlan == "none"
PlanForms == [seatingplan : {"P", NoPlan}, users_edit_seatingplan : BOOLEAN]
\* OrderPosition.objects.filter(order__event, seat__isnull=False).exists()
seats_in_use == \E s \in Seats : order[s] # "none"
\* the answer to an exception that no handler catches
ServerError == ErrorResp(500, "ServerError", "")
\* generate_seats(event, None, plan, dict(), None): the seats of the
\* plan's layout, each with the product of its category in the empty mapping
generate_seats(k) == [k EXCEPT !.seat_rows = Seats, !.direct = [s \in Seats |-> NoProduct]]
\* get_form and form_valid up to the test of seats_in_use: the plan field
\* is disabled, and keeps its value, while seats are in use; the event is
\* saved with the plan set or unset
PlanSave(r, form) ==
    /\ req[r].pc = "idle"
    /\ nreq < MaxReq
    /\ nreq' = nreq + 1
    /\ LET seatingplan_id == IF seats_in_use
                             THEN (IF catalog.seating_plan THEN "P" ELSE NoPlan)
                             ELSE form.seatingplan
       IN catalog' = IF seatingplan_id # NoPlan
                     THEN [catalog EXCEPT !.seating_plan = TRUE,
                                          !.seating_choice = form.users_edit_seatingplan]
                     ELSE [catalog EXCEPT !.seating_plan = FALSE]
    /\ req' = [req EXCEPT ![r] =
                 IF seats_in_use
                 THEN [Idle EXCEPT !.pc = "done", !.form = form, !.resp = SuccessResp]
                 ELSE [Idle EXCEPT !.pc = "apply", !.form = form]]
    /\ UNCHANGED <<now, cp, order, voucher, blocked, view, nenv>>
\* the branch under `if not self.seats_in_use()`: the seats are generated
\* from the plan, or the mappings and then the seats are deleted; the
\* delete of a seat that an order position references either removes the
\* row or raises
PlanApply(r) ==
    /\ req[r].pc = "apply"
    /\ \E raises \in {FALSE} \cup {seats_in_use /\ ~catalog.seating_plan} :
          /\ catalog' = IF catalog.seating_plan THEN generate_seats(catalog)
                        ELSE [catalog EXCEPT !.mapping = {},
                                             !.seat_rows = IF raises THEN @ ELSE {}]
          /\ req' = [req EXCEPT ![r] = [@ EXCEPT !.pc = "done",
                         !.resp = IF raises THEN ServerError ELSE SuccessResp]]
    /\ UNCHANGED <<now, cp, order, voucher, blocked, view, nreq, nenv>>

\* ---------------------------------------------------------- specification
Init ==
    /\ now = 0
    /\ cp = [p \in Pk |-> [exists |-> TRUE, seat |-> NoSeat]]
    /\ order = [s \in Seats |-> "none"]
    /\ voucher = [s \in Seats |-> NoVoucher]
    /\ blocked = [s \in Seats |-> FALSE]
    /\ catalog = PlainCatalog
    /\ view = NoView
    /\ req = [r \in Req |-> Idle]
    /\ nreq = 0
    /\ nenv = 0

\* one worker: the requests run one after the other
Next ==
    \/ \E c \in Carts, b \in Batches : Begin(1, c, b)
    \/ \E c \in Carts, body \in Bodies : BeginMalformed(1, c, body)
    \/ Check(1)
    \/ Clear(1)
    \/ Save(1)
    \/ \E k \in {"aborted", "open"} : Fault(1, k)
    \/ Respond(1)
    \/ Tick
    \/ \E p \in Pk : PlaceOrder(p)
    \/ \E s \in Seats, st \in {"n", "p"} : ExternalOrder(s, st)
    \/ \E s \in Seats, vu \in {NoTime, 1} : CreateVoucher(s, vu, 0)

Spec == Init /\ [][Next]_vars

\* two workers: the steps of two requests interleave
NextRace ==
    \/ \E r \in Req, c \in Carts, b \in RaceBatches : Begin(r, c, b)
    \/ \E r \in Req : Check(r)
    \/ \E r \in Req : Clear(r)
    \/ \E r \in Req : Save(r)
    \/ \E r \in Req : Respond(r)
    \/ Tick
    \/ \E p \in Pk : PlaceOrder(p)
    \/ \E s \in Seats, st \in {"n", "p"} : ExternalOrder(s, st)
    \/ \E s \in Seats, vu \in {NoTime, 1} : CreateVoucher(s, vu, 0)

SpecRace == Init /\ [][NextRace]_vars

\* one worker and every kind of reference a seat can have: orders of any
\* status, vouchers dead or alive, the blocked flag
NextHolds ==
    \/ \E c \in Carts, b \in RaceBatches : Begin(1, c, b)
    \/ Check(1)
    \/ Clear(1)
    \/ Save(1)
    \/ Respond(1)
    \/ Tick
    \/ \E p \in Pk : PlaceOrder(p)
    \/ \E s \in Seats, st \in {"n", "p", "e", "c"} : ExternalOrder(s, st)
    \/ \E s \in Seats, vu \in {NoTime, 1}, rd \in {0, 1} : CreateVoucher(s, vu, rd)
    \/ \E s \in Seats : BlockSeat(s)

SpecHolds == Init /\ [][NextHolds]_vars

\* one worker's assignment requests interleaved with status queries and
\* page renderings, on a catalog in which both projections depend on the holds
MixedCatalog ==
    [PlainCatalog EXCEPT !.layout = ZoneLayout(RowOf("VIP")),
                         !.mapping = {MappingRow(0, "VIP", NoSub, "A")}]
InitMixed ==
    /\ now = 0
    /\ cp = [p \in Pk |-> [exists |-> TRUE, seat |-> NoSeat]]
    /\ order = [s \in Seats |-> "none"]
    /\ voucher = [s \in Seats |-> NoVoucher]
    /\ blocked = [s \in Seats |-> FALSE]
    /\ catalog = MixedCatalog
    /\ view = NoView
    /\ req = [r \in Req |-> Idle]
    /\ nreq = 0
    /\ nenv = 0

NextMixed ==
    \/ \E c \in Carts, b \in RaceBatches : Begin(1, c, b)
    \/ Check(1)
    \/ Clear(1)
    \/ Save(1)
    \/ Respond(1)
    \/ Tick
    \/ \E c \in Carts : get(c, NoSub)
    \/ get_context_data("A", NoSub)

SpecMixed == InitMixed /\ [][NextMixed]_vars

\* one worker's assignment requests, orders placed from the carts, and the
\* POST of the checkout seat step, with seating choice on or off
InitFlow ==
    /\ now = 0
    /\ cp = [p \in Pk |-> [exists |-> TRUE, seat |-> NoSeat]]
    /\ order = [s \in Seats |-> "none"]
    /\ voucher = [s \in Seats |-> NoVoucher]
    /\ blocked = [s \in Seats |-> FALSE]
    /\ \E on \in BOOLEAN : catalog = [PlainCatalog EXCEPT !.seating_choice = on]
    /\ view = NoView
    /\ req = [r \in Req |-> Idle]
    /\ nreq = 0
    /\ nenv = 0

NextFlow ==
    \/ \E c \in Carts, b \in RaceBatches : Begin(1, c, b)
    \/ Check(1)
    \/ Clear(1)
    \/ Save(1)
    \/ Respond(1)
    \/ \E p \in Pk : PlaceOrder(p)
    \/ \E c \in Carts \cup {EmptyCart} : SeatSelectionStep_post(c)

SpecFlow == InitFlow /\ [][NextFlow]_vars

\* two administrators save the mapping form, each once; the event starts
\* with a general and a subevent mapping of VIP
InitMapping ==
    /\ now = 0
    /\ cp = [p \in Pk |-> [exists |-> TRUE, seat |-> NoSeat]]
    /\ order = [s \in Seats |-> "none"]
    /\ voucher = [s \in Seats |-> NoVoucher]
    /\ blocked = [s \in Seats |-> FALSE]
    /\ catalog = [PlainCatalog EXCEPT !.mapping = {MappingRow(0, "VIP", NoSub, "A"),
                                                   MappingRow(0, "VIP", "S", "B")}]
    /\ view = NoView
    /\ req = [r \in Req |-> Idle]
    /\ nreq = 0
    /\ nenv = 0

NextMapping ==
    \/ \E r \in Req, form \in MappingForms : MappingDelete(r, form)
    \/ \E r \in Req : MappingCreate(r)

SpecMapping == InitMapping /\ [][NextMapping]_vars

\* an order of a customer on a seat that has a record
OrderOnSeat(s, st) == s \in catalog.seat_rows /\ ExternalOrder(s, st)
\* an administrator saves the plan form while orders are placed on the
\* seats that exist; the event starts with a plan, its seats and a mapping
InitPlan ==
    /\ now = 0
    /\ cp = [p \in Pk |-> [exists |-> TRUE, seat |-> NoSeat]]
    /\ order = [s \in Seats |-> "none"]
    /\ voucher = [s \in Seats |-> NoVoucher]
    /\ blocked = [s \in Seats |-> FALSE]
    /\ catalog = [PlainCatalog EXCEPT !.mapping = {MappingRow(0, "VIP", NoSub, "A")}]
    /\ view = NoView
    /\ req = [r \in Req |-> Idle]
    /\ nreq = 0
    /\ nenv = 0

NextPlan ==
    \/ \E form \in PlanForms : PlanSave(1, form)
    \/ PlanApply(1)
    \/ Respond(1)
    \/ \E s \in Seats, st \in {"n", "p", "e", "c"} : OrderOnSeat(s, st)

SpecPlan == InitPlan /\ [][NextPlan]_vars

\* the status query on a store and a catalog drawn from the sets above
InitStatus ==
    /\ now = 1
    /\ \E a, b \in {NoSeat, "S1"} :
          cp = [p \in Pk |-> [exists |-> TRUE,
                              seat |-> IF p = 1 THEN a ELSE IF p = 3 THEN b ELSE NoSeat]]
    /\ \E o \in {"none", "n", "c"} : order = [s \in Seats |-> IF s = "S1" THEN o ELSE "none"]
    /\ \E v \in {NoVoucher, LiveVoucher, ExpiredVoucher} :
          voucher = [s \in Seats |-> IF s = "S1" THEN v ELSE NoVoucher]
    /\ \E f \in BOOLEAN : blocked = [s \in Seats |-> s = "S1" /\ f]
    /\ catalog \in Catalogs
    /\ view = NoView
    /\ req = [r \in Req |-> Idle]
    /\ nreq = 0
    /\ nenv = 0

NextStatus == \E c \in Carts, sub \in Subevents \cup {NoSub} : get(c, sub)

SpecStatus == InitStatus /\ [][NextStatus]_vars

\* the status query and the checkout page on the layouts drawn above
InitLayout ==
    /\ now = 1
    /\ \E a \in {NoSeat, "S1"} :
          cp = [p \in Pk |-> [exists |-> TRUE, seat |-> IF p = 1 THEN a ELSE NoSeat]]
    /\ order = [s \in Seats |-> "none"]
    /\ voucher = [s \in Seats |-> NoVoucher]
    /\ blocked = [s \in Seats |-> FALSE]
    /\ catalog \in LayoutCatalogs
    /\ view = NoView
    /\ req = [r \in Req |-> Idle]
    /\ nreq = 0
    /\ nenv = 0

NextLayout ==
    \/ \E c \in Carts, sub \in Subevents \cup {NoSub} : get(c, sub)
    \/ \E c \in Carts, sub \in Subevents \cup {NoSub} : get_context_data(c, sub)

SpecLayout == InitLayout /\ [][NextLayout]_vars

\* ================================================================ claims
\* request r ends in this step
Ends(r) == req'[r].pc = "done" /\ req'[r] # req[r]
\* the active holds of seat s: unexpired cart positions, a pending or paid
\* order, a live voucher
HoldCount(s) ==
    Cardinality(CartHolders(s)) + (IF HasOrder(s) THEN 1 ELSE 0)
                               + (IF HasVoucher(s) THEN 1 ELSE 0)
\* the cart positions, expired or not, that reference seat s
Referencing(s) == {p \in Pk : cp[p].exists /\ cp[p].seat = s}

\* C1: with assignment requests as the only writers (no order, voucher or
\* cart event of the environment has happened), in every reachable state
\* each seat has at most one active hold.
C1_AtMostOneActiveHold ==
    nenv = 0 => \A s \in Seats : HoldCount(s) <= 1

\* C2 (scenario D): two requests of different carts that run concurrently,
\* the only requests so far, each assigning the same free seat s to one
\* position of its own cart: when both have ended, exactly one has the
\* success response, the other SeatUnavailable with status 400, and exactly
\* one cart position references s.
NamesOnly(r, s) ==
    /\ Len(req[r].batch) = 1
    /\ req[r].batch[1].seat = s
    /\ IntKey(req[r].batch[1].pos) \in req[r].pmap
C2_ScenarioD ==
    \A s \in Seats :
        ( /\ nenv = 0 /\ now = 0 /\ nreq = 2
          /\ req[1].pc = "done" /\ req[2].pc = "done"
          /\ req[1].cart # req[2].cart
          /\ req[1].overlap \/ req[2].overlap
          /\ NamesOnly(1, s) /\ NamesOnly(2, s) )
        => /\ \E r \in Req :
                /\ req[r].resp = SuccessResp
                /\ \A o \in Req \ {r} : req[o].resp = SeatUnavailable(s)
           /\ Cardinality(Referencing(s)) = 1

\* C6: in every state (each is the state some committed transaction left),
\* no two unexpired cart positions reference the same seat, and no seat
\* referenced by an unexpired cart position has a pending or paid order or
\* a live voucher.
C6_Uniqueness ==
    \A s \in Seats :
        /\ Cardinality(CartHolders(s)) <= 1
        /\ CartHolders(s) # {} => ~HasOrder(s) /\ ~HasVoucher(s)

\* ------------------------------------------------- one request at a time
Rejections == {"PositionNotInCart", "DuplicateSeatAssignment", "SeatNotFound", "SeatUnavailable"}
\* request r takes a step of validation step 3 on the pair pr
Resolves(r) == req[r].pc = "check" /\ req'[r] # req[r]
PairOf(r) == req[r].batch[req[r].i]
\* key k names an admission position of cart c
OwnAdmission(c, k) == \E p \in Pk : StrPk(p) = k /\ cp[p].exists /\ CartOf(p) = c /\ Admission(p)
DupGuids(b) == \E i, j \in 1..Len(b) : i # j /\ b[i].seat = b[j].seat

\* C3: the step in which a request ends with a validation rejection
\* (PositionNotInCart, DuplicateSeatAssignment, SeatNotFound,
\* SeatUnavailable) leaves the seat link of every cart position as it was.
C3_RejectionWritesNothing ==
    [][\A r \in Req : (Ends(r) /\ req'[r].resp.kind \in Rejections) => cp' = cp]_vars
\* a two-pair batch rejected at its second pair while a position of the
\* cart holds a seat
C3_Witness ==
    \E r \in Req :
        /\ req[r].pc = "done" /\ req[r].resp.kind \in {"SeatNotFound", "SeatUnavailable"}
        /\ req[r].i = 2
        /\ \E p \in req[r].pmap : cp[p].seat # NoSeat

\* C4: the step in which a request ends with status 500 leaves the seat
\* link of every cart position as it was before the request.
C4_ErrorRollsBack ==
    [][\A r \in Req : (Ends(r) /\ req'[r].resp.code = 500) => cp' = cp]_vars

\* C5: when a request ends with the success response, the response has
\* status "success" and code 200 and every position named in the batch
\* references the seat of the event with the submitted guid.
C5_SuccessLinksBatch ==
    [][\A r \in Req : (Ends(r) /\ req'[r].resp.status = "success") =>
          /\ req'[r].resp = SuccessResp
          /\ \A i \in 1..Len(req'[r].batch) :
                /\ req'[r].batch[i].seat \in Seats
                /\ cp'[IntKey(req'[r].batch[i].pos)] =
                      [exists |-> TRUE, seat |-> req'[r].batch[i].seat]]_vars
C5_Witness ==
    \E r \in Req :
        /\ req[r].pc = "done" /\ req[r].resp = SuccessResp /\ Len(req[r].batch) = 2
        /\ \A i \in 1..2 : cp[IntKey(req[r].batch[i].pos)].seat = req[r].batch[i].seat

\* C7 as stated, for batches of the caller's own positions whose other
\* pairs are valid: every batch that names a seat with a pending or paid
\* order ends with SeatUnavailable, status 400, naming that seat, and the
\* step changes no position.
Ordered(b) == {s \in BatchSeats(b) \cap Seats : HasOrder(s)}
OthersValid(b) ==
    \A i \in 1..Len(b) :
        b[i].seat \notin Ordered(b) =>
            b[i].seat \in Seats /\ ~is_seat_taken(b[i].seat, IntKey(b[i].pos))
C9_ForeignPositionRejected ==
    [][\A r \in Req :
          /\ ( /\ req[r].pc = "idle" /\ req'[r] # req[r]
               /\ \E k \in BatchKeys(req'[r].batch) : ~OwnAdmission(req'[r].cart, k) ) =>
                  /\ req'[r].pc = "done"
                  /\ req'[r].resp = [status |-> "error", code |-> 400,
                                     kind |-> "PositionNotInCart", arg |-> ""]
                  /\ cp' = cp
          /\ req'[r] # req[r] =>
                \A p \in Pk : CartOf(p) # req'[r].cart => cp'[p] = cp[p]]_vars
\* a batch naming a position of the other cart, which holds a seat, refused
C9_Witness ==
    \E r \in Req :
        /\ req[r].pc = "done" /\ req[r].resp.kind = "PositionNotInCart"
        /\ \E i \in 1..Len(req[r].batch) :
              LET p == IntKey(req[r].batch[i].pos)
              IN CartOf(p) # req[r].cart /\ cp[p].seat # NoSeat

\* C10 as stated, for batches of the caller's own positions: every batch
\* that names a guid without a seat record ends with SeatNotFound, status
\* 404, and changes no position.
C10_AnyBatchWithUnknownGuid ==
    [][\A r \in Req :
          ( /\ Ends(r) /\ ~(BatchSeats(req'[r].batch) \subseteq Seats)
            /\ \A k \in BatchKeys(req'[r].batch) : OwnAdmission(req'[r].cart, k) ) =>
          /\ req'[r].resp.kind = "SeatNotFound" /\ req'[r].resp.code = 404
          /\ cp' = cp]_vars
\* C10 amended: when resolution reaches a pair whose guid has no seat
\* record (the position ids are all in the cart, the guids distinct, no
\* earlier pair failed), the request ends there with SeatNotFound, status
\* 404, and changes no position.
C10_UnknownGuidRejected ==
    [][\A r \in Req : (Resolves(r) /\ PairOf(r).seat \notin Seats) =>
          /\ req'[r].pc = "done"
          /\ req'[r].resp.kind = "SeatNotFound" /\ req'[r].resp.code = 404
          /\ cp' = cp]_vars
\* a two-pair batch refused for the unknown guid of its second pair while a
\* position of the cart holds a seat
C10_Witness ==
    \E r \in Req :
        /\ req[r].pc = "done" /\ req[r].resp.kind = "SeatNotFound" /\ req[r].i = 2
        /\ \E p \in req[r].pmap : cp[p].seat # NoSeat

\* ------------------------------------------------------ what counts as taken
\* the seat named by the pair request r resolves in this step
PairSeat(r) == PairOf(r).seat
PairPos(r) == IntKey(PairOf(r).pos)
\* the pair is refused as unavailable / passes validation step 3
Refused(r) == req'[r].pc = "done" /\ req'[r].resp = SeatUnavailable(PairSeat(r))
Passes(r) == req'[r].pc \in {"check", "clear"}

\* C11: in the assignment path a seat whose only active holds are unexpired
\* positions of the requester's own cart (also positions other than the
\* one being assigned) is not taken: a pair naming it is never refused
\* with SeatUnavailable, so the swap {P1: seat of P2, P2: seat of P1} passes.
C11_OwnCartHoldNotTaken ==
    [][\A r \in Req :
          ( /\ Resolves(r) /\ PairSeat(r) \in Seats
            /\ ~HasOrder(PairSeat(r)) /\ ~HasVoucher(PairSeat(r))
            /\ CartHolders(PairSeat(r)) # {}
            /\ \A p \in CartHolders(PairSeat(r)) : CartOf(p) = req[r].cart ) =>
          Passes(r)]_vars

\* C12: a pair that names a seat whose blocked flag is set is refused with
\* SeatUnavailable and the request changes no position, so no commit links
\* a cart position to a blocked seat.
C12_BlockedSeatRejected ==
    [][\A r \in Req :
          (Resolves(r) /\ PairSeat(r) \in Seats /\ blocked[PairSeat(r)]) =>
             Refused(r) /\ cp' = cp]_vars

\* C13: a request that submits again, from the same cart, the batch whose
\* commit the cart's seat links are (resub), and ends while the batch is
\* still valid (no order, live voucher or hold of another position on its
\* seats), ends with the success response and leaves every seat link as it
\* was; a request that ends with status 500 is not covered.
StillValid(b, pm) ==
    /\ Committed(b, pm)
    /\ \A i \in 1..Len(b) :
          /\ ~HasOrder(b[i].seat) /\ ~HasVoucher(b[i].seat)
          /\ CartHolders(b[i].seat) \subseteq {IntKey(b[i].pos)}
C13_ResubmissionIdempotent ==
    [][\A r \in Req :
          ( /\ Ends(r) /\ req'[r].resub /\ req'[r].resp.code # 500
            /\ StillValid(req'[r].batch, req'[r].pmap) ) =>
          req'[r].resp = SuccessResp /\ cp' = cp]_vars
\* a two-pair batch committed, submitted again and answered with success
C13_Witness ==
    \E r \in Req :
        /\ req[r].pc = "done" /\ req[r].resub /\ req[r].resp = SuccessResp
        /\ Len(req[r].batch) = 2
        /\ \A i \in 1..2 : cp[IntKey(req[r].batch[i].pos)].seat = req[r].batch[i].seat

\* C14: a pair naming an unblocked seat that has no active hold passes
\* validation step 3 whatever inert references the seat has: a voucher with
\* valid_until in the past, a voucher with redeemed = max_usages, an order
\* that is expired or canceled.
DeadVoucher(s) == voucher[s].present /\ ~HasVoucher(s)
DeadOrder(s) == order[s] \in {"e", "c"}
C14_InertHoldsNotTaken ==
    [][\A r \in Req :
          ( /\ Resolves(r) /\ PairSeat(r) \in Seats /\ ~blocked[PairSeat(r)]
            /\ DeadVoucher(PairSeat(r)) \/ DeadOrder(PairSeat(r))
            /\ (voucher[PairSeat(r)].present => DeadVoucher(PairSeat(r)))
            /\ (order[PairSeat(r)] # "none" => DeadOrder(PairSeat(r)))
            /\ CartHolders(PairSeat(r)) \subseteq {PairPos(r)} ) =>
          Passes(r)]_vars
\* a seat with a dead voucher or a dead order was assigned
C14_Witness ==
    \E r \in Req :
        /\ req[r].pc = "done" /\ req[r].resp = SuccessResp /\ Len(req[r].batch) = 1
        /\ LET s == req[r].batch[1].seat
           IN /\ DeadVoucher(s) \/ DeadOrder(s)
              /\ cp[IntKey(req[r].batch[1].pos)].seat = s

\* C15: a pair naming a seat that a position of another cart references is
\* refused with SeatUnavailable as long as now <= expires of that position;
\* once now > expires of every such position, with the links still in
\* place and no other active hold on the seat, the pair passes.
OtherCartRefs(r) ==
    {p \in Referencing(PairSeat(r)) : CartOf(p) # req[r].cart}
C15_ExpiryIsTimeBased ==
    [][\A r \in Req :
          (Resolves(r) /\ PairSeat(r) \in Seats /\ OtherCartRefs(r) # {}) =>
             /\ (\E p \in OtherCartRefs(r) : Expires(p) >= now) => Refused(r)
             /\ ( /\ \A p \in Referencing(PairSeat(r)) \ {PairPos(r)} : Expires(p) < now
                  /\ ~HasOrder(PairSeat(r)) /\ ~HasVoucher(PairSeat(r)) ) => Passes(r)]_vars
\* a seat assigned to cart B while the expired position of cart A still
\* references it
C15_Witness ==
    \E r \in Req, p \in Pk :
        /\ req[r].pc = "done" /\ req[r].resp = SuccessResp /\ Len(req[r].batch) = 1
        /\ CartOf(p) # req[r].cart /\ Expires(p) < now
        /\ cp[p].seat = req[r].batch[1].seat
        /\ cp[IntKey(req[r].batch[1].pos)].seat = req[r].batch[1].seat

\* ------------------------------------------------------- the status query
\* the query has answered; its records for seat s
Answered == view.pc = "done"
RecordsOf(s) == {i \in 1..Len(view.seats) : view.seats[i].guid = s}
\* the product the response reports for the record is available to the
\* caller: generally, and under the subevent of the request
Sellable(rec) ==
    /\ rec.product # NoProduct
    /\ catalog.available[rec.product]
    /\ ~(view.subevent # NoSub /\ catalog.override[view.subevent][rec.product] = "off")
\* the product of the mapping row of category c for subevent u (general
\* for NoSub), none without such a row
Mapped(c, u) ==
    IF \E m \in catalog.mapping : m.layout_category = c /\ m.subevent = u
    THEN (CHOOSE m \in catalog.mapping : m.layout_category = c /\ m.subevent = u).product
    ELSE NoProduct
\* the seat has no direct product and its category no mapping row
Unmapped(s) ==
    /\ catalog.direct[s] = NoProduct
    /\ \/ layout_category_name(s) = NoCat
       \/ \A u \in {NoSub, "S"} : Mapped(layout_category_name(s), u) = NoProduct
\* a position of the caller's cart references the seat
InOwnCart(s) == \E p \in Pk : cp[p].exists /\ CartOf(p) = view.cart /\ cp[p].seat = s
\* an unexpired position of another cart references the seat
InOtherCart(s) == \E p \in CartHolders(s) : CartOf(p) # view.cart

\* C16: every record of the response whose seat resolves no product (no
\* direct product and no mapping for its category), or whose product is not
\* generally available or is overridden to unavailable for the request's
\* subevent, has status unavailable, also when the caller's cart holds it.
C16_NoProductUnavailable ==
    Answered =>
        \A i \in 1..Len(view.seats) :
            LET rec == view.seats[i]
            IN /\ Unmapped(rec.guid) => rec.product = NoProduct
               /\ ~Sellable(rec) => rec.status = "unavailable"
\* a seat of the caller's own cart reported unavailable for want of a product
C16_Witness ==
    /\ Answered
    /\ \E i \in 1..Len(view.seats) :
          /\ ~Sellable(view.seats[i]) /\ InOwnCart(view.seats[i].guid)
          /\ view.seats[i].status = "unavailable"

\* C17: a record with an available product whose seat a position of the
\* caller's cart references has status selected, whatever orders, vouchers
\* and cart holds the seat has; a record whose seat no position of the
\* caller's cart references is not selected.
C17_OwnCartSelected ==
    Answered =>
        \A i \in 1..Len(view.seats) :
            LET rec == view.seats[i]
            IN /\ (Sellable(rec) /\ InOwnCart(rec.guid)) => rec.status = "selected"
               /\ ~InOwnCart(rec.guid) => rec.status # "selected"
\* a seat selected for the caller while an order, a voucher and a position
\* of the other cart hold it
C17_Witness ==
    /\ Answered
    /\ \E i \in 1..Len(view.seats) :
          LET s == view.seats[i].guid
          IN /\ view.seats[i].status = "selected"
             /\ HasOrder(s) /\ HasVoucher(s) /\ InOtherCart(s)

\* C18: a record with an available product whose seat is not in the
\* caller's cart has status unavailable whenever the seat is blocked, or
\* has a pending or paid order, a live voucher, or an unexpired position of
\* another cart.
C18_HeldOrBlockedUnavailable ==
    Answered =>
        \A i \in 1..Len(view.seats) :
            LET rec == view.seats[i]
            IN ( /\ Sellable(rec) /\ ~InOwnCart(rec.guid)
                 /\ \/ blocked[rec.guid] \/ HasOrder(rec.guid)
                    \/ HasVoucher(rec.guid) \/ InOtherCart(rec.guid) ) =>
               rec.status = "unavailable"

\* C19 as stated: whenever the query has answered, every seat of the event
\* has exactly one record, with status available, unavailable or selected.
Statuses == {"available", "unavailable", "selected"}
OneRecordEach ==
    \A s \in Seats :
        /\ Cardinality(RecordsOf(s)) = 1
        /\ \A i \in RecordsOf(s) : view.seats[i].status \in Statuses
C20_SpecificMappingWins ==
    Answered =>
        \A i \in 1..Len(view.seats) :
            LET rec == view.seats[i]
                k == layout_category_name(rec.guid)
            IN ( /\ view.subevent = "S" /\ catalog.direct[rec.guid] = NoProduct /\ k # NoCat
                 /\ Mapped(k, NoSub) # NoProduct
                 /\ Mapped(k, "S") # NoProduct ) =>
               rec.product = Mapped(k, "S")

\* C30: the record of a seat bound directly to a product reports that
\* product, and its status is decided on that product's availability,
\* whatever product, or none, the seat's layout category is mapped to.
DirectSellable(s) ==
    /\ catalog.available[catalog.direct[s]]
    /\ ~(view.subevent # NoSub /\ catalog.override[view.subevent][catalog.direct[s]] = "off")
C30_DirectBindingWins ==
    Answered =>
        \A i \in 1..Len(view.seats) :
            LET rec == view.seats[i]
            IN catalog.direct[rec.guid] # NoProduct =>
                 /\ rec.product = catalog.direct[rec.guid]
                 /\ ~DirectSellable(rec.guid) => rec.status = "unavailable"
                 /\ (DirectSellable(rec.guid) /\ InOwnCart(rec.guid)) => rec.status = "selected"
                 /\ ( /\ DirectSellable(rec.guid) /\ ~InOwnCart(rec.guid)
                      /\ ~HasOrder(rec.guid) /\ ~HasVoucher(rec.guid)
                      /\ CartHolders(rec.guid) = {} ) => rec.status = "available"
\* a seat bound to B whose category is mapped to the unavailable product A
\* is reported available with product B
C30_Witness ==
    /\ Answered
    /\ \E i \in 1..Len(view.seats) :
          LET rec == view.seats[i]
          IN /\ catalog.direct[rec.guid] = "B" /\ layout_category_name(rec.guid) = "VIP"
             /\ Mapped("VIP", NoSub) = "A" /\ ~catalog.available["A"]
             /\ rec.product = "B" /\ rec.status = "available"

\* ------------------------------------------------- layouts and mappings
\* either projection has answered
Projected == view.pc \in {"done", "page"}
\* the (guid, category) entries of a layout: in the rows of the zones a
\* seat's own category, else its row's; in a flat list its own category
RowEntries(row) ==
    {<<row.seats[i].seat_guid,
       IF row.seats[i].category # NoCat THEN row.seats[i].category ELSE row.category>> :
        i \in 1..Len(row.seats)}
Entries(l) ==
    IF l.kind # "object" THEN {}
    ELSE IF "zones" \in l.keys THEN UNION {RowEntries(l.rows[j]) : j \in 1..Len(l.rows)}
    ELSE IF "seats" \in l.keys THEN RowEntries(LayoutRow(NoCat, l.seats))
    ELSE {}
EffectiveCategory(l, s) ==
    IF \E e \in Entries(l) : e[1] = s /\ e[2] # NoCat
    THEN (CHOOSE e \in Entries(l) : e[1] = s /\ e[2] # NoCat)[2]
    ELSE NoCat
\* the product a record reports for seat s
ProductOf(s) == {view.seats[i].product : i \in RecordsOf(s)}

\* C21: outside context S (no subevent, or another subevent) the record of
\* a seat without direct product reports the product of the general
\* mapping of its category, or none when the category has no general
\* mapping, never the product of the mapping for S.
C21_SpecificOnlyUnderItsSubevent ==
    (Projected /\ view.subevent # "S") =>
        \A i \in 1..Len(view.seats) :
            LET rec == view.seats[i]
            IN (catalog.direct[rec.guid] = NoProduct /\ rec.category # NoCat) =>
               rec.product = Mapped(rec.category, NoSub)

\* C22: each record carries the effective category of its seat (own
\* category, else the row's in a zone layout; own category only in a flat
\* layout; none without guid or category), and with S1 (own VIP) and S2 (row
\* Std), VIP mapped generally to A, Std generally to B and for S to C, S1
\* resolves to A in every context, S2 to C under S and to B without subevent.
ExampleLayout ==
    ZoneLayout(<<LayoutRow("Std", <<LayoutSeat("S1", "VIP"), LayoutSeat("S2", NoCat),
                                   LayoutSeat(NoGuid, "VIP")>>)>>)
C22_LayoutCategoryResolution ==
    (Projected /\ catalog.layout.kind = "object" /\ view.seats # <<>>) =>
        /\ \A i \in 1..Len(view.seats) :
              view.seats[i].category = EffectiveCategory(catalog.layout, view.seats[i].guid)
        /\ ( /\ catalog.layout = ExampleLayout
             /\ \A s \in Seats : catalog.direct[s] = NoProduct
             /\ Mapped("Std", NoSub) = "B" /\ Mapped("Std", "S") = "C"
             /\ view.subevent \in {NoSub, "S"} ) =>
                /\ ProductOf("S1") = {"A"}
                /\ ProductOf("S2") = {IF view.subevent = "S" THEN "C" ELSE "B"}

\* C23: on a layout payload that is empty, unparsable or not an object the
\* query answers normally, with no category for any seat.
C23_BadLayoutNeverFails ==
    (view.pc # "none" /\ catalog.layout.kind # "object") =>
        /\ view.pc # "error"
        /\ \A i \in 1..Len(view.seats) : view.seats[i].category = NoCat

\* C24: with an empty layout (no payload, an unusable payload, or an object
\* without zones and seats) no record has status available or selected.
C24_NoLayoutAllUnavailable ==
    (Projected /\ Entries(catalog.layout) = {}) =>
        \A i \in 1..Len(view.seats) : view.seats[i].status = "unavailable"

\* ------------------------------------------------ responses of a request
\* the batch of request record q names a position id outside position_map
UnknownPosition(q) == \E i \in 1..Len(q.batch) : q.batch[i].pos \notin position_map_keys(q.pmap)
\* the unexpected errors a request can end with
FaultKinds == {"aborted", "open", "not_object", "bad_assignments"}

\* C25: a request whose body is not valid JSON ends with MalformedRequest,
\* status 400, and changes no position; and a request whose body fails
\* structural validation (not {seat_assignments: {...}}, or a position id
\* outside the cart) is answered neither with success nor with status 500.
C25_MalformedBodyIs400 ==
    [][\A r \in Req : Ends(r) =>
          /\ req'[r].body = "invalid_json" =>
                (req'[r].resp = MalformedRequest /\ cp' = cp)
          /\ (req'[r].body # "object" \/ UnknownPosition(req'[r])) =>
                (req'[r].resp.status # "success" /\ req'[r].resp.code # 500)]_vars

\* C26: a response with status 500 is the same whatever error was raised:
\* it equals the response to each of the unexpected errors.
C26_GenericFailureMessage ==
    [][\A r \in Req : (Ends(r) /\ req'[r].resp.code = 500) =>
          \A k \in FaultKinds : req'[r].resp = UnexpectedFailure(k)]_vars

\* C28: the step in which a request ends with success changes the seat
\* link of no position that its batch does not name: not of the other
\* admission positions of the cart, not of another cart's positions, and
\* of no position at all when the batch is empty.
C28_CommitTouchesNamedOnly ==
    [][\A r \in Req : (Ends(r) /\ req'[r].resp = SuccessResp) =>
          \A p \in Pk : StrPk(p) \notin BatchKeys(req'[r].batch) => cp'[p] = cp[p]]_vars

\* C29: a request with a well-formed body is rejected in the order of the
\* validation steps: PositionNotInCart when any position id is outside the
\* cart, whatever else is wrong; else DuplicateSeatAssignment when two
\* pairs name the same guid, also an unknown or held one; SeatNotFound and
\* SeatUnavailable only when both checks passed, for the pair the loop
\* stands on, before which every guid resolved.
C29_ValidationOrder ==
    [][\A r \in Req : (Ends(r) /\ req'[r].body = "object") =>
          LET q == req'[r]
              b == q.batch
          IN /\ UnknownPosition(q) => q.resp = PositionNotInCart
             /\ (~UnknownPosition(q) /\ DupGuids(b)) => q.resp = DuplicateSeatAssignment
             /\ q.resp.kind \in {"SeatNotFound", "SeatUnavailable"} =>
                   /\ ~UnknownPosition(q) /\ ~DupGuids(b)
                   /\ q.i \in 1..Len(b)
                   /\ \A j \in 1..(q.i - 1) : b[j].seat \in Seats
                   /\ IF b[q.i].seat \notin Seats THEN q.resp = SeatNotFound
                      ELSE /\ q.resp = SeatUnavailable(b[q.i].seat)
                           /\ is_seat_taken(b[q.i].seat, IntKey(b[q.i].pos))]_vars
\* a batch with a position of another cart and twice the guid that has no
\* seat record is rejected PositionNotInCart
C29_Witness ==
    \E r \in Req :
        /\ req[r].pc = "done" /\ req[r].resp = PositionNotInCart
        /\ UnknownPosition(req[r])
        /\ Len(req[r].batch) = 2
        /\ req[r].batch[1].seat = "SX" /\ req[r].batch[2].seat = "SX"

\* ------------------------------------------------------ queries are reads
\* which projection answered: the status query or the page
Projection(v) == IF v.pc = "page" THEN "page" ELSE IF v.pc = "none" THEN "none" ELSE "query"

StatusNow(s, c, sub) ==
    status(s, c, sub, category_mappings(q_mappings(sub, catalog.nulls_first)))
Contexts == Subevents \cup {NoSub}

\* C31: when validation step 3 of a request of cart c reaches a pair whose
\* seat the query reports available to c in that state, the pair passes
\* (a one-pair batch goes on to its writes); and a pair refused with
\* SeatUnavailable for an order, a voucher or an active position of another
\* cart names a seat that the query reports available to nobody.
C31_ReadWriteAgree ==
    [][\A r \in Req : (Resolves(r) /\ PairSeat(r) \in Seats) =>
          /\ (\E sub \in Contexts : StatusNow(PairSeat(r), req[r].cart, sub) = "available") =>
                /\ Passes(r)
                /\ Len(req[r].batch) = 1 => req'[r].pc = "clear"
          /\ ( /\ Refused(r)
               /\ \/ HasOrder(PairSeat(r)) \/ HasVoucher(PairSeat(r))
                  \/ \E p \in CartHolders(PairSeat(r)) : CartOf(p) # req[r].cart ) =>
                \A c \in Carts, sub \in Contexts : StatusNow(PairSeat(r), c, sub) # "available"]_vars
\* a one-pair batch has passed validation for a seat the query reports
\* available to its cart, while the other seat has an order or a voucher
C31_Witness ==
    /\ req[1].pc = "clear" /\ Len(req[1].batch) = 1
    /\ req[1].batch[1].seat \in Seats
    /\ StatusNow(req[1].batch[1].seat, req[1].cart, NoSub) = "available"
    /\ \E s \in Seats \ {req[1].batch[1].seat} : HasOrder(s) \/ HasVoucher(s)

\* ------------------------------------------------------ the checkout flow
\* the admission positions of cart c that have no seat
Unseated(c) == {p \in Pk : cp[p].exists /\ CartOf(p) = c /\ Admission(p) /\ cp[p].seat = NoSeat}
\* an applicable step is not completed, for every cart
ApplicableIsOpen == \A c \in Carts : is_applicable(c) => ~is_completed(c)

\* C32: the POST of the seat step redirects to the next step exactly when
\* no admission position of the caller's cart lacks a seat (an absent cart
\* has none), and else returns to the seat step with the error; and while
\* the step is applicable it is not completed.
C32_StepGatesOnSeats ==
    [][/\ (view' # view /\ view'.pc \in {"next", "seats"}) =>
             (view'.pc = "next" <=> Unseated(view'.cart) = {})
       /\ ApplicableIsOpen /\ ApplicableIsOpen']_vars
\* cart B is let through: its admission position has a seat, its other
\* position has none
C32_Witness ==
    /\ view.pc = "next" /\ view.cart = "B" /\ view.seen = Store
    /\ cp[3].seat # NoSeat /\ cp[4].exists /\ cp[4].seat = NoSeat
    /\ is_applicable("A")

\* ------------------------------------------------------ the backend forms
\* the general mapping rows of category c
GeneralRows(c) == {m \in catalog.mapping : m.layout_category = c /\ m.subevent = NoSub}
\* what the rows say: (category, subevent, product)
Content == {<<m.layout_category, m.subevent, m.product>> : m \in catalog.mapping}
\* the rows one save of the form leaves
FormContent(form) == {<<c, NoSub, form[c]>> : c \in {k \in Cats : form[k] # NoProduct}}
\* no save is under way and one has been made
Saved == (\A r \in Req : req[r].pc \in {"idle", "done"}) /\ (\E r \in Req : req[r].pc = "done")

\* C33: a step taken while an order position references a seat deletes
\* or regenerates no seat record and deletes no category mapping; and the
\* save of the form with the plan unset, when no order position references
\* a seat, leaves the event without seat records and without mappings.
C33_SeatsKeptWhileInUse ==
    [][/\ seats_in_use =>
             /\ catalog'.seat_rows = catalog.seat_rows
             /\ catalog'.direct = catalog.direct
             /\ catalog'.mapping = catalog.mapping
       /\ \A r \in Req :
             ( /\ req[r].pc = "apply" /\ req'[r].pc = "done"
               /\ ~seats_in_use /\ ~catalog.seating_plan ) =>
                   (catalog'.seat_rows = {} /\ catalog'.mapping = {})]_vars

\* C34: when the saves of the mapping form that were started have ended,
\* each layout category has at most one general mapping, and the rows
\* present are those of one of the saves, none of the rows before it and
\* none of another save.
C34_MappingsReplacedWholesale ==
    Saved =>
        /\ \A c \in Cats : Cardinality(GeneralRows(c)) <= 1
        /\ \E r \in Req : req[r].pc = "done" /\ Content = FormContent(req[r].form)

====
